---- MODULE Spec2Model ----
(***************************************************************************)
(* Model of the session manager's LocalSessionManagerHandlerImpl           *)
(* (ReportRuleStats, the usage-reporting loop, pipelined setup, and        *)
(* CreateSession / EndSession).                                            *)
(*                                                                         *)
(* Two kinds of thread act on the handler:                                 *)
(*   - caller threads, which run the body of a public handler up to the    *)
(*     point where it hands work to the event base;                        *)
(*   - the event-base thread, which runs the queued closures one at a      *)
(*     time, in FIFO order (variable evb).                                 *)
(* LocalEnforcer and SessionCloudReporter are collaborators whose code is  *)
(* not part of the handler; their operations are modelled from the         *)
(* specification's description of the CreditEngine / billing interfaces.   *)
(* The accounting service of the AAA gateway (accounting.go) is the caller *)
(* of CreateSession; its continuation after the call returns is modelled.  *)
(***************************************************************************)
EXTENDS Bags, FiniteSets, Integers, Sequences, TLC

----------------------------------------------------------------------------
(* Bounds of the model *)
NCallers  == 2      \* caller threads
MaxRRS    == 2      \* ReportRuleStats calls
MaxEpoch  == 2      \* epochs reported by pipelined are 0..MaxEpoch
MaxUpd    == 2      \* usage updates ever produced by the CreditEngine
MaxSetups == 1      \* retried setup calls
NImsi     == 1      \* subscribers
MaxCreate == 2      \* CreateSession calls
MaxEnd    == 1      \* EndSession calls
NAaaSid   == 2      \* radius session ids known to the accounting service
MaxTimers == 2      \* timers the MME's timer service can run at once
NSubData  == 2      \* distinct subscription data an HSS answer can carry

Callers == 1..NCallers
Epochs  == 0..MaxEpoch
Imsis   == 1..NImsi
Cfgs    == {"A", "B"}          \* two SessionState::Config values

(* SetupFlowsResult.result *)
SetupResults == {"SUCCESS", "FAILURE", "OUTDATED_EPOCH"}

VARIABLES
  current_epoch,    \* current_epoch_
  reported_epoch,   \* reported_epoch_
  th,               \* th[c]: where caller thread c is inside a handler
  evb,              \* closures queued on the enforcer's event base (FIFO)
  pending,          \* CreditEngine: updates waiting to be collected (a bag)
  acked,            \* CreditEngine: updates whose acknowledgement was applied
  reports,          \* report_updates calls awaiting the billing response
  nReports,         \* number of report_updates calls issued so far
  setups,           \* enforcer setup calls awaiting pipelined's answer:
                    \* [epoch, id], id numbering the calls
  setupCalls,       \* bag of the setup calls issued: [epoch, retry]
  timers,           \* bag of epochs with a retry timeout armed
  nRRS,             \* number of ReportRuleStats calls made
  rrsEpochs,        \* the epochs those calls carried
  rrsAcks,          \* bag of ReportRuleStats responses: [call, status]
  nUpd,             \* number of usage updates produced so far
  sessions,         \* SessionTable: [sid, imsi, cfg, terminating]
  creates,          \* report_create_session calls awaiting the response
  terms,            \* report_terminate_session calls awaiting the response
  nCreate,          \* number of CreateSession calls made
  createArgs,       \* the [imsi, cfg] those calls carried
  nEnd,             \* number of EndSession calls made by callers
  nCreateCalls,     \* number of billing create calls issued
  nTermCalls,       \* number of billing termination reports issued
  createAcks,       \* bag of CreateSession responses: [call, status]
  endAcks,          \* bag of EndSession responses: [call, status]
  acctRet,          \* accounting service: its CreateSession calls that
                    \* returned, [call, timeout]: was SetTimeout called
  aaaConfig,        \* accounting service: srv.config
  aaaSessions,      \* accounting service: srv.sessions, [sid, imsi]
  aaaTimeouts,      \* session ids with an idle timeout set
  aaaLast,          \* the last accounting operation: [op, sid, code, out],
                    \* out the outbound calls it made, in order
  ue,               \* MME: the UE context (ue_mm_context_s) of the known IMSI
  mmeTimers,        \* MME: ids of the timers running in the timer service
  mmeLast           \* MME: the last operation: [op, rc, s6a, nas], the
                    \* messages it passed to the S6A and the NAS task

vars == <<current_epoch, reported_epoch, th, evb, pending, acked, reports,
          nReports, setups, setupCalls, timers, nRRS, rrsEpochs, rrsAcks,
          nUpd,
          sessions, creates, terms, nCreate, createArgs, nEnd, nCreateCalls,
          nTermCalls,
          createAcks, endAcks, acctRet,
          aaaConfig, aaaSessions, aaaTimeouts, aaaLast,
         ue, mmeTimers, mmeLast>>

epochVars == <<current_epoch, reported_epoch>>
usageVars == <<pending, acked, reports, nReports, nUpd>>
setupVars == <<setups, setupCalls, timers>>
rrsVars   == <<nRRS, rrsEpochs, rrsAcks>>
aaaVars   == <<aaaConfig, aaaSessions, aaaTimeouts, aaaLast>>
mmeVars   == <<ue, mmeTimers, mmeLast>>
createVars == <<nCreate, createArgs, acctRet, aaaVars, mmeVars>>
sessVars  == <<sessions, creates, terms, nCreate, createArgs, nEnd, nCreateCalls,
               nTermCalls, createAcks, endAcks, acctRet, aaaVars,
               mmeVars>>

Idle == [pc |-> "idle"]

Init ==
  /\ current_epoch = 0
  /\ reported_epoch = 0
  /\ th = [c \in Callers |-> Idle]
  /\ evb = <<>>
  /\ pending = EmptyBag
  /\ acked = EmptyBag
  /\ reports = {}
  /\ nReports = 0
  /\ setups = {}
  /\ setupCalls = EmptyBag
  /\ timers = EmptyBag
  /\ nRRS = 0
  /\ rrsEpochs = {}
  /\ rrsAcks = EmptyBag
  /\ nUpd = 0
  /\ sessions = {}
  /\ creates = {}
  /\ terms = {}
  /\ nCreate = 0
  /\ createArgs = {}
  /\ nEnd = 0
  /\ nCreateCalls = 0
  /\ nTermCalls = 0
  /\ createAcks = EmptyBag
  /\ endAcks = EmptyBag
  /\ acctRet = {}
  /\ aaaConfig = [made |-> FALSE, accounting |-> FALSE, createOnAuth |-> FALSE]
  /\ aaaSessions = {}
  /\ aaaTimeouts = {}
  /\ aaaLast = [op |-> "none", sid |-> 0, code |-> "OK", out |-> <<>>]
  /\ ue = [timer_id |-> 0, location_info_confirmed_in_hss |-> FALSE,
           subscription_known |-> FALSE, send_ue_purge_request |-> FALSE,
           subscription_data |-> 0, locked |-> FALSE,
           hss_initiated_detach |-> FALSE, ecm_state |-> "ECM_IDLE",
           nw_init_bearer_deactv |-> FALSE, sgs_context |-> FALSE]
  /\ mmeTimers = {}
  /\ mmeLast = [op |-> "none", rc |-> "RETURNok", s6a |-> <<>>, nas |-> <<>>]

----------------------------------------------------------------------------
(* CreditEngine (LocalEnforcer) operations on the pending updates *)

aggregate_records(p, recs) == p (+) recs

collect_updates(p) == p

reset_updates(p, request) == p (+) request

update_session_credit(a, response) == a (+) response

----------------------------------------------------------------------------
(* The usage-reporting loop *)

(* check_usage_for_reporting, run with p as the CreditEngine's pending     *)
(* updates: collect them and, unless there are none, issue one report call *)
check_usage_for_reporting(p) ==
  LET request == collect_updates(p) IN
  IF request = EmptyBag
    THEN /\ pending' = p
         /\ UNCHANGED <<reports, nReports>>
    ELSE /\ pending' = EmptyBag
         /\ reports' = reports \cup {[id |-> nReports + 1, request |-> request]}
         /\ nReports' = nReports + 1

(* report_updates_callback with the failure branch calling the loop again  *)
(* instead of stopping                                                      *)
report_updates_callback_retry(ok, request) ==
  IF ~ok
    THEN /\ acked' = acked
         /\ check_usage_for_reporting(reset_updates(pending, request))
    ELSE /\ acked' = update_session_credit(acked, request)
         /\ check_usage_for_reporting(pending)

(* report_updates_callback with the success branch not calling the loop     *)
(* again                                                                    *)
report_updates_callback_once(ok, request) ==
  IF ~ok
    THEN /\ pending' = reset_updates(pending, request)
         /\ UNCHANGED <<acked, reports, nReports>>
    ELSE /\ acked' = update_session_credit(acked, request)
         /\ UNCHANGED <<pending, reports, nReports>>

(* report_updates_callback with the failure branch not calling             *)
(* reset_updates                                                            *)
report_updates_callback_drop(ok, request) ==
  IF ~ok
    THEN UNCHANGED <<pending, acked, reports, nReports>>
    ELSE /\ acked' = update_session_credit(acked, request)
         /\ check_usage_for_reporting(pending)

(* the response callback of report_updates *)
report_updates_callback(ok, request) ==
  IF ~ok
    THEN /\ pending' = reset_updates(pending, request)
         /\ UNCHANGED <<acked, reports, nReports>>
    ELSE /\ acked' = update_session_credit(acked, request)
         /\ check_usage_for_reporting(pending)

----------------------------------------------------------------------------
(* Epoch handling *)

(* is_pipelined_restarted without the test for epoch 0 *)
is_pipelined_restarted_mismatch(cur, rep) == cur # rep

(* lines 82-89 *)
is_pipelined_restarted(cur, rep) == cur = 0 \/ cur # rep

(* the closure restart_pipelined puts on the event base *)
restart_pipelined(epoch) == [kind |-> "setup", epoch |-> epoch]

(* the closures handle_setup_callback puts on the event base *)
RetryClosure(epoch) == [kind |-> "sched_retry", epoch |-> epoch]

handle_setup_callback(epoch, ok, result) ==
  (IF ~ok THEN <<RetryClosure(epoch)>> ELSE <<>>)
  \o (IF result = "FAILURE" THEN <<RetryClosure(epoch)>> ELSE <<>>)

----------------------------------------------------------------------------
(* ReportRuleStats, on caller thread c *)

(* a response_callback invocation: call is answered with status *)
Ack(call, status) == SetToBag({[call |-> call, status |-> status]})

NewRecords ==
  {EmptyBag} \cup (IF nUpd < MaxUpd THEN {SetToBag({nUpd + 1})} ELSE {})

(* lines 40-46: queue the aggregation closure, store the reported epoch *)
ReportRuleStats(c, epoch, recs) ==
  /\ th[c].pc = "idle"
  /\ nRRS < MaxRRS
  /\ evb' = Append(evb, [kind |-> "rrs", recs |-> recs])
  /\ reported_epoch' = epoch
  /\ nUpd' = nUpd + BagCardinality(recs)
  /\ nRRS' = nRRS + 1
  /\ rrsEpochs' = rrsEpochs \cup {epoch}
  /\ th' = [th EXCEPT ![c] = [pc |-> "rrs_check", call |-> nRRS + 1,
                              epoch |-> epoch]]
  /\ UNCHANGED <<current_epoch, pending, acked, reports, nReports,
                 rrsAcks, setupVars, sessVars>>

(* lines 47-49, and 53 when no restart is detected *)
RRS_CheckRestart(c) ==
  /\ th[c].pc = "rrs_check"
  /\ IF is_pipelined_restarted(current_epoch, reported_epoch)
       THEN /\ evb' = Append(evb, restart_pipelined(reported_epoch))
            /\ th' = [th EXCEPT ![c] = [pc |-> "rrs_set",
                                        call |-> th[c].call,
                                        epoch |-> th[c].epoch]]
            /\ rrsAcks' = rrsAcks
       ELSE /\ evb' = evb
            /\ th' = [th EXCEPT ![c] = Idle]
            /\ rrsAcks' = rrsAcks (+) Ack(th[c].call, "OK")
  /\ UNCHANGED <<epochVars, usageVars, setupVars, nRRS, rrsEpochs, sessVars>>

(* RRS_SetCurrentEpoch with the assignment of line 51 left out *)
RRS_SetCurrentEpoch_skip(c) ==
  /\ th[c].pc = "rrs_set"
  /\ current_epoch' = current_epoch
  /\ rrsAcks' = rrsAcks (+) Ack(th[c].call, "OK")
  /\ th' = [th EXCEPT ![c] = Idle]
  /\ UNCHANGED <<reported_epoch, evb, usageVars, setupVars, nRRS, rrsEpochs,
                 sessVars>>

(* RRS_SetCurrentEpoch that returns without calling response_callback *)
RRS_SetCurrentEpoch_noack(c) ==
  /\ th[c].pc = "rrs_set"
  /\ current_epoch' = reported_epoch
  /\ rrsAcks' = rrsAcks
  /\ th' = [th EXCEPT ![c] = Idle]
  /\ UNCHANGED <<reported_epoch, evb, usageVars, setupVars, nRRS, rrsEpochs,
                 sessVars>>

(* lines 51-53 *)
RRS_SetCurrentEpoch(c) ==
  /\ th[c].pc = "rrs_set"
  /\ current_epoch' = reported_epoch
  /\ rrsAcks' = rrsAcks (+) Ack(th[c].call, "OK")
  /\ th' = [th EXCEPT ![c] = Idle]
  /\ UNCHANGED <<reported_epoch, evb, usageVars, setupVars, nRRS, rrsEpochs,
                 sessVars>>

----------------------------------------------------------------------------
(* The event-base thread *)

HeadIs(kind) == evb # <<>> /\ Head(evb).kind = kind

(* lines 42-45: aggregate the records, then one pass of the loop *)
RunRuleStats ==
  /\ HeadIs("rrs")
  /\ evb' = Tail(evb)
  /\ check_usage_for_reporting(aggregate_records(pending, Head(evb).recs))
  /\ UNCHANGED <<epochVars, th, acked, nUpd, setupVars, rrsVars, sessVars>>

(* lines 67-79: the billing response is delivered on the event base *)
RunReportCallback ==
  /\ HeadIs("report_cb")
  /\ evb' = Tail(evb)
  /\ report_updates_callback(Head(evb).ok, Head(evb).request)
  /\ UNCHANGED <<epochVars, th, nUpd, setupVars, rrsVars, sessVars>>

(* lines 135-139: the closure of restart_pipelined calls enforcer setup *)
RunSetup ==
  /\ HeadIs("setup")
  /\ evb' = Tail(evb)
  /\ setups' = setups \cup {[epoch |-> Head(evb).epoch,
                               id |-> BagCardinality(setupCalls) + 1]}
  /\ setupCalls' = setupCalls (+) SetToBag({[epoch |-> Head(evb).epoch, retry |-> FALSE]})
  /\ UNCHANGED <<epochVars, th, usageVars, timers, rrsVars, sessVars>>

(* lines 101-109 and 117-125: arm the retry timeout *)
RunScheduleRetry ==
  /\ HeadIs("sched_retry")
  /\ evb' = Tail(evb)
  /\ timers' = timers (+) SetToBag({Head(evb).epoch})
  /\ UNCHANGED <<epochVars, th, usageVars, setups, setupCalls, rrsVars, sessVars>>

(* setup calls made by a retry timeout *)
Retries ==
  LET R == {x \in BagToSet(setupCalls) : x.retry}
  IN BagCardinality([x \in R |-> setupCalls[x]])

(* lines 103-107 and 119-123: the timeout fires, setup is called again *)
RetryTimeout(epoch) ==
  /\ BagIn(epoch, timers)
  /\ Retries < MaxSetups
  /\ timers' = timers (-) SetToBag({epoch})
  /\ setups' = setups \cup {[epoch |-> epoch,
                               id |-> BagCardinality(setupCalls) + 1]}
  /\ setupCalls' = setupCalls (+) SetToBag({[epoch |-> epoch, retry |-> TRUE]})
  /\ UNCHANGED <<epochVars, th, evb, usageVars, rrsVars, sessVars>>

----------------------------------------------------------------------------
(* Collaborators answering *)

(* pipelined answers a setup call: handle_setup_callback, lines 91-129 *)
SetupResponse(s, ok, result) ==
  /\ s \in setups
  /\ setups' = setups \ {s}
  /\ evb' = evb \o handle_setup_callback(s.epoch, ok, result)
  /\ UNCHANGED <<epochVars, th, usageVars, setupCalls, timers, rrsVars, sessVars>>

(* billing answers a report call; the callback is queued on the event base *)
ReportResponse(r, ok) ==
  /\ r \in reports
  /\ reports' = reports \ {r}
  /\ evb' = Append(evb, [kind |-> "report_cb", id |-> r.id,
                         request |-> r.request, ok |-> ok])
  /\ UNCHANGED <<epochVars, th, pending, acked, nReports, nUpd,
                 setupVars, rrsVars, sessVars>>

(* the CreditEngine produces an update on its own (validity timers) *)
CreditAccumulate ==
  /\ nUpd < MaxUpd
  /\ nUpd' = nUpd + 1
  /\ pending' = pending (+) SetToBag({nUpd + 1})
  /\ UNCHANGED <<epochVars, th, evb, acked, reports, nReports,
                 setupVars, rrsVars, sessVars>>

----------------------------------------------------------------------------
(* SessionTable operations of the enforcer *)

is_imsi_duplicate(S, imsi) == \E s \in S : s.imsi = imsi

is_session_duplicate(S, imsi, cfg) ==
  \E s \in S : s.imsi = imsi /\ s.cfg = cfg

(* phase 1: every session of the subscriber starts terminating *)
terminate_subscriber(S, imsi) ==
  {IF s.imsi = imsi THEN [s EXCEPT !.terminating = TRUE] ELSE s : s \in S}

init_session_credit(S, imsi, sid, cfg) ==
  S \cup {[sid |-> sid, imsi |-> imsi, cfg |-> cfg, terminating |-> FALSE]}

(* phase 4: the terminated session is removed *)
complete_termination(S, s) == S \ {s}

----------------------------------------------------------------------------
(* CreateSession, on caller thread c *)

(* line 190: the session id is fresh for every CreateSession call *)
gen_session_id(call) == call

(* lines 232-261: issue the billing create call *)
send_create_session(call, imsi, sid, cfg) ==
  /\ creates' = creates \cup {[call |-> call, imsi |-> imsi, sid |-> sid,
                                cfg |-> cfg]}
  /\ nCreateCalls' = nCreateCalls + 1

(* the closure EndSession puts on the event base, lines 318-320; call 0 is *)
(* the EndSession made by CreateSession, whose callback does nothing       *)
EndClosure(imsi, call) == [kind |-> "end", imsi |-> imsi, call |-> call]

(* lines 189-212 and, when the subscriber has no session, 227-229 *)
CreateSession(c, imsi, cfg) ==
  /\ th[c].pc = "idle"
  /\ nCreate < MaxCreate
  /\ nCreate' = nCreate + 1
  /\ createArgs' = createArgs \cup {[imsi |-> imsi, cfg |-> cfg]}
  /\ IF is_imsi_duplicate(sessions, imsi)
       THEN /\ th' = [th EXCEPT ![c] = [pc |-> "cs_sess", imsi |-> imsi,
                                        cfg |-> cfg, call |-> nCreate + 1]]
            /\ UNCHANGED <<creates, nCreateCalls>>
       ELSE /\ send_create_session(nCreate + 1, imsi,
                                   gen_session_id(nCreate + 1), cfg)
            /\ th' = [th EXCEPT ![c] = Idle]
  /\ UNCHANGED <<epochVars, evb, usageVars, setupVars, rrsVars, sessions,
                 terms, nEnd, nTermCalls, createAcks, endAcks, acctRet,
                 aaaVars, mmeVars>>

(* CS_CheckSession that creates the replacement without ending the old    *)
(* session                                                                 *)
CS_CheckSession_noend(c) ==
  /\ th[c].pc = "cs_sess"
  /\ IF is_session_duplicate(sessions, th[c].imsi, th[c].cfg)
       THEN UNCHANGED <<evb, creates, nCreateCalls>>
       ELSE /\ evb' = evb
            /\ send_create_session(th[c].call, th[c].imsi,
                                   gen_session_id(th[c].call), th[c].cfg)
  /\ th' = [th EXCEPT ![c] = Idle]
  /\ UNCHANGED <<epochVars, usageVars, setupVars, rrsVars, sessions, terms,
                 createVars, nEnd, nTermCalls, createAcks, endAcks>>

(* lines 213-229 *)
CS_CheckSession(c) ==
  /\ th[c].pc = "cs_sess"
  /\ IF is_session_duplicate(sessions, th[c].imsi, th[c].cfg)
       THEN UNCHANGED <<evb, creates, nCreateCalls>>
       ELSE /\ evb' = Append(evb, EndClosure(th[c].imsi, 0))
            /\ send_create_session(th[c].call, th[c].imsi,
                                   gen_session_id(th[c].call), th[c].cfg)
  /\ th' = [th EXCEPT ![c] = Idle]
  /\ UNCHANGED <<epochVars, usageVars, setupVars, rrsVars, sessions, terms,
                 createVars, nEnd, nTermCalls, createAcks, endAcks>>

(* create_session_callback that initialises the credit whatever the       *)
(* status of the billing call                                              *)
create_session_callback_noguard(t, ok, success) ==
  IF success
    THEN /\ sessions' = init_session_credit(sessions, t.imsi, t.sid, t.cfg)
         /\ createAcks' = createAcks (+) Ack(t.call, "OK")
    ELSE /\ sessions' = sessions
         /\ createAcks' = createAcks (+) Ack(t.call, "FAILED_PRECONDITION")

(* create_session_callback that answers a failed billing call like a      *)
(* failed initialisation                                                   *)
create_session_callback_samefail(t, ok, success) ==
  IF ok /\ success
    THEN /\ sessions' = init_session_credit(sessions, t.imsi, t.sid, t.cfg)
         /\ createAcks' = createAcks (+) Ack(t.call, "OK")
    ELSE /\ sessions' = sessions
         /\ createAcks' = createAcks (+) Ack(t.call, "FAILED_PRECONDITION")

(* create_session_callback that, when the creation fails, makes the       *)
(* subscriber's terminating sessions live again                            *)
create_session_callback_restore(t, ok, success) ==
  IF ok /\ success
    THEN /\ sessions' = init_session_credit(sessions, t.imsi, t.sid, t.cfg)
         /\ createAcks' = createAcks (+) Ack(t.call, "OK")
    ELSE /\ sessions' = {IF x.imsi = t.imsi
                           THEN [x EXCEPT !.terminating = FALSE] ELSE x :
                         x \in sessions}
         /\ createAcks' = createAcks (+)
              Ack(t.call, IF ok THEN "FAILED_PRECONDITION" ELSE "BILLING_ERROR")

(* lines 243-259: the response callback of report_create_session; the     *)
(* status of a failed billing call, passed on as it is, is BILLING_ERROR   *)
create_session_callback(t, ok, success) ==
  IF ok
    THEN IF success
           THEN /\ sessions' = init_session_credit(sessions, t.imsi, t.sid,
                                                   t.cfg)
                /\ createAcks' = createAcks (+) Ack(t.call, "OK")
           ELSE /\ sessions' = sessions
                /\ createAcks' =
                     createAcks (+) Ack(t.call, "FAILED_PRECONDITION")
    ELSE /\ sessions' = sessions
         /\ createAcks' = createAcks (+) Ack(t.call, "BILLING_ERROR")

RunCreateCallback ==
  /\ HeadIs("create_cb")
  /\ evb' = Tail(evb)
  /\ \E success \in BOOLEAN :
       create_session_callback(Head(evb), Head(evb).ok, success)
  /\ UNCHANGED <<epochVars, th, usageVars, setupVars, rrsVars, creates, terms,
                 createVars, nEnd, nCreateCalls, nTermCalls, endAcks>>

(* billing answers a create call *)
CreateResponse(r, ok) ==
  /\ r \in creates
  /\ creates' = creates \ {r}
  /\ evb' = Append(evb, [kind |-> "create_cb", call |-> r.call,
                         imsi |-> r.imsi, sid |-> r.sid, cfg |-> r.cfg,
                         ok |-> ok])
  /\ UNCHANGED <<epochVars, th, usageVars, setupVars, rrsVars, sessions, terms,
                 createVars, nEnd, nCreateCalls, nTermCalls, createAcks, endAcks>>

(* accounting.go, CreateSession lines 125-132: session_manager's         *)
(* CreateSession has answered call a.call with a.status; the idle session  *)
(* timeout is set when there was no error                                  *)
AcctCreateSessionReturn(a) ==
  /\ BagIn(a, createAcks)
  /\ \A r \in acctRet : r.call # a.call
  /\ acctRet' = acctRet \cup {[call |-> a.call, timeout |-> a.status = "OK"]}
  /\ UNCHANGED <<epochVars, th, evb, usageVars, setupVars, rrsVars, sessions,
                 creates, terms, nCreate, createArgs, nEnd, nCreateCalls,
                 nTermCalls, createAcks, endAcks, aaaVars,
                 mmeVars>>

----------------------------------------------------------------------------
(* EndSession *)

(* lines 318-320, on caller thread c *)
EndSession(c, imsi) ==
  /\ th[c].pc = "idle"
  /\ nEnd < MaxEnd
  /\ nEnd' = nEnd + 1
  /\ evb' = Append(evb, EndClosure(imsi, nEnd + 1))
  /\ UNCHANGED <<epochVars, th, usageVars, setupVars, rrsVars, sessions,
                 creates, terms, createVars, nCreateCalls, nTermCalls,
                 createAcks, endAcks>>

(* end_session_closure that answers OK without starting the termination *)
end_session_closure_noterm(imsi, call) ==
  /\ sessions' = sessions
  /\ endAcks' = IF call = 0 THEN endAcks
                ELSE endAcks (+) Ack(call,
                       IF is_imsi_duplicate(sessions, imsi)
                         THEN "OK" ELSE "FAILED_PRECONDITION")

(* end_session_closure that does not tell a missing session apart *)
end_session_closure_ok(imsi, call) ==
  /\ sessions' = terminate_subscriber(sessions, imsi)
  /\ endAcks' = IF call = 0 THEN endAcks ELSE endAcks (+) Ack(call, "OK")

(* lines 321-334: the body of the closure *)
end_session_closure(imsi, call) ==
  IF is_imsi_duplicate(sessions, imsi)
    THEN /\ sessions' = terminate_subscriber(sessions, imsi)
         /\ endAcks' = IF call = 0 THEN endAcks
                       ELSE endAcks (+) Ack(call, "OK")
    ELSE /\ sessions' = sessions
         /\ endAcks' = IF call = 0 THEN endAcks
                       ELSE endAcks (+) Ack(call, "FAILED_PRECONDITION")

(* RunEndSession that sends the termination report of the subscriber's    *)
(* sessions at once, before their drain                                    *)
RunEndSession_reportfirst ==
  /\ HeadIs("end")
  /\ evb' = Tail(evb)
  /\ end_session_closure(Head(evb).imsi, Head(evb).call)
  /\ terms' = terms \cup {[id |-> nTermCalls + 1, sid |-> x.sid] :
                            x \in {y \in sessions : y.imsi = Head(evb).imsi}}
  /\ nTermCalls' = nTermCalls + 1
  /\ UNCHANGED <<epochVars, th, usageVars, setupVars, rrsVars, creates,
                 createVars, nEnd, nCreateCalls, createAcks>>

RunEndSession ==
  /\ HeadIs("end")
  /\ evb' = Tail(evb)
  /\ end_session_closure(Head(evb).imsi, Head(evb).call)
  /\ UNCHANGED <<epochVars, th, usageVars, setupVars, rrsVars, creates, terms,
                 createVars, nEnd, nCreateCalls, nTermCalls, createAcks>>

(* phases 2-4 for terminating session s: its flows are gone from the       *)
(* dataplane reports or the timeout elapsed; the on-termination callback   *)
(* (lines 324-327, report_termination) sends the termination report and    *)
(* the session is removed                                                  *)
CompleteTermination(s) ==
  /\ s \in sessions
  /\ s.terminating
  /\ terms' = terms \cup {[id |-> nTermCalls + 1, sid |-> s.sid]}
  /\ nTermCalls' = nTermCalls + 1
  /\ sessions' = complete_termination(sessions, s)
  /\ UNCHANGED <<epochVars, th, evb, usageVars, setupVars, rrsVars, creates,
                 createVars, nEnd, nCreateCalls, createAcks, endAcks>>

(* TermResponse that sends the termination report again when it failed *)
TermResponse_retry(t, ok) ==
  /\ t \in terms
  /\ IF ok
       THEN terms' = terms \ {t} /\ nTermCalls' = nTermCalls
       ELSE /\ terms' = (terms \ {t}) \cup {[id |-> nTermCalls + 1,
                                              sid |-> t.sid]}
            /\ nTermCalls' = nTermCalls + 1
  /\ UNCHANGED <<epochVars, th, evb, usageVars, setupVars, rrsVars, sessions,
                 creates, createVars, nEnd, nCreateCalls, createAcks,
                 endAcks>>

(* billing answers a termination report: lines 289-299, logging only *)
TermResponse(t, ok) ==
  /\ t \in terms
  /\ terms' = terms \ {t}
  /\ UNCHANGED <<epochVars, th, evb, usageVars, setupVars, rrsVars, sessions,
                 creates, createVars, nEnd, nCreateCalls, nTermCalls, createAcks,
                 endAcks>>

----------------------------------------------------------------------------
(* The accounting service of the AAA gateway (accounting.go). Each of its  *)
(* operations is one step; the session manager and the Radius server are   *)
(* collaborators whose calls either succeed or fail.                       *)

AaaSids == 1..NAaaSid

(* IMSI strings: one subscriber's with and without the "IMSI" prefix,    *)
(* another subscriber's with it                                           *)
AaaImsis == {[prefix |-> FALSE, id |-> 1], [prefix |-> TRUE, id |-> 1],
             [prefix |-> TRUE, id |-> 2]}

(* MAC address strings: one that parses, one that does not, the empty one *)
MacAddrs == {"00:11:22:33:44:55", "00-11-zz", ""}

(* net.ParseMAC succeeds *)
ParseMAC(mac) == mac = "00:11:22:33:44:55"

(* lines 206-211: the prefix is added when it is missing *)
makeSID(imsi) == [imsi EXCEPT !.prefix = TRUE]

(* a protos.Context; NilCtx is the nil pointer, whose getters return zero *)
(* values                                                                 *)
AaaCtxs == [nil : {FALSE}, sid : AaaSids, imsi : AaaImsis, mac : MacAddrs]
NilCtx == [nil |-> TRUE, sid |-> 0, imsi |-> [prefix |-> FALSE, id |-> 0],
           mac |-> ""]

(* the contexts that differ in what InterimUpdate and Stop read *)
AaaCtxsNoMac == {ctx \in AaaCtxs : ctx.mac = ""}

(* the outbound calls *)
SmCreateSession(ctx) ==
  [to |-> "CreateSession", imsi |-> makeSID(ctx.imsi), sid |-> ctx.sid]
SmEndSession(imsi) == [to |-> "EndSession", imsi |-> makeSID(imsi), sid |-> 0]
RadiusDisconnect(sid, imsi) ==
  [to |-> "Disconnect", imsi |-> imsi, sid |-> sid]

(* srv.sessions.GetSession(sid) # nil *)
GetSession(sid) == \E x \in aaaSessions : x.sid = sid

(* the session srv.sessions holds for sid *)
StoredSession(sid) == CHOOSE x \in aaaSessions : x.sid = sid

(* srv.sessions.RemoveSession(sid): the session and its timeout are gone *)
RemoveSession(sid) ==
  /\ aaaSessions' = {x \in aaaSessions : x.sid # sid}
  /\ aaaTimeouts' = aaaTimeouts \ {sid}

(* srv.sessions.SetTimeout(sid, ...) *)
SetTimeout(sid) ==
  /\ aaaTimeouts' = aaaTimeouts \cup {sid}
  /\ aaaSessions' = aaaSessions

(* the operation returns code after having made the calls out *)
Reply(op, sid, code, out) ==
  aaaLast' = [op |-> op, sid |-> sid, code |-> code, out |-> out]

AaaFrame ==
  UNCHANGED <<epochVars, th, evb, usageVars, setupVars, rrsVars, sessions,
              creates, terms, nCreate, createArgs, nEnd, nCreateCalls,
              nTermCalls, createAcks, endAcks, acctRet, mmeVars>>

(* lines 41-47 *)
NewAccountingService(accounting, createOnAuth) ==
  /\ ~aaaConfig.made
  /\ aaaConfig' = [made |-> TRUE, accounting |-> accounting,
                   createOnAuth |-> createOnAuth]
  /\ UNCHANGED <<aaaSessions, aaaTimeouts, aaaLast>>
  /\ AaaFrame

(* the authenticator adds an authenticated session to the table *)
AaaAddSession(sid, imsi) ==
  /\ aaaConfig.made
  /\ ~GetSession(sid)
  /\ aaaSessions' = aaaSessions \cup {[sid |-> sid, imsi |-> imsi]}
  /\ UNCHANGED <<aaaConfig, aaaTimeouts, aaaLast>>
  /\ AaaFrame

(* AcctCreateSession that calls the session manager before it looks at    *)
(* the MAC address                                                         *)
AcctCreateSession_nocheck(op, ctx, smErr) ==
  IF smErr
    THEN /\ Reply(op, ctx.sid, "SmError", <<SmCreateSession(ctx)>>)
         /\ UNCHANGED <<aaaSessions, aaaTimeouts>>
    ELSE /\ Reply(op, ctx.sid, "OK", <<SmCreateSession(ctx)>>)
         /\ SetTimeout(ctx.sid)

(* lines 109-135: the body of CreateSession, called as operation op;      *)
(* smErr: the session manager's CreateSession returns an error             *)
AcctCreateSession(op, ctx, smErr) ==
  IF ~ParseMAC(ctx.mac)
    THEN /\ Reply(op, ctx.sid, "InvalidArgument", <<>>)
         /\ UNCHANGED <<aaaSessions, aaaTimeouts>>
    ELSE IF smErr
      THEN /\ Reply(op, ctx.sid, "SmError", <<SmCreateSession(ctx)>>)
           /\ UNCHANGED <<aaaSessions, aaaTimeouts>>
      ELSE /\ Reply(op, ctx.sid, "OK", <<SmCreateSession(ctx)>>)
           /\ SetTimeout(ctx.sid)

(* lines 50-67; ctx may be the nil pointer *)
AcctStart(ctx, smErr) ==
  /\ aaaConfig.made
  /\ IF ctx.nil
       THEN /\ Reply("Start", 0, "InvalidArgument", <<>>)
            /\ UNCHANGED <<aaaSessions, aaaTimeouts>>
       ELSE IF ~GetSession(ctx.sid)
         THEN /\ Reply("Start", ctx.sid, "FailedPrecondition", <<>>)
              /\ UNCHANGED <<aaaSessions, aaaTimeouts>>
         ELSE IF aaaConfig.accounting /\ ~aaaConfig.createOnAuth
           THEN AcctCreateSession("Start", ctx, smErr)
           ELSE /\ Reply("Start", ctx.sid, "OK", <<>>)
                /\ SetTimeout(ctx.sid)
  /\ UNCHANGED aaaConfig
  /\ AaaFrame

(* AcctInterimUpdate that does not look the session up *)
AcctInterimUpdate_noauth(ctx) ==
  /\ aaaConfig.made
  /\ IF ctx.nil
       THEN /\ Reply("InterimUpdate", 0, "InvalidArgument", <<>>)
            /\ UNCHANGED <<aaaSessions, aaaTimeouts>>
       ELSE /\ Reply("InterimUpdate", ctx.sid, "OK", <<>>)
            /\ SetTimeout(ctx.sid)
  /\ UNCHANGED aaaConfig
  /\ AaaFrame

(* lines 70-86; ctx is the context of the update request, nil when the    *)
(* request is                                                              *)
AcctInterimUpdate(ctx) ==
  /\ aaaConfig.made
  /\ IF ctx.nil
       THEN /\ Reply("InterimUpdate", 0, "InvalidArgument", <<>>)
            /\ UNCHANGED <<aaaSessions, aaaTimeouts>>
       ELSE IF ~GetSession(ctx.sid)
         THEN /\ Reply("InterimUpdate", ctx.sid, "FailedPrecondition", <<>>)
              /\ UNCHANGED <<aaaSessions, aaaTimeouts>>
         ELSE /\ Reply("InterimUpdate", ctx.sid, "OK", <<>>)
              /\ SetTimeout(ctx.sid)
  /\ UNCHANGED aaaConfig
  /\ AaaFrame

(* lines 89-106; smErr: the session manager's EndSession returns an error *)
AcctStop(ctx, smErr) ==
  /\ aaaConfig.made
  /\ IF ctx.nil
       THEN /\ Reply("Stop", 0, "InvalidArgument", <<>>)
            /\ UNCHANGED <<aaaSessions, aaaTimeouts>>
       ELSE IF ~GetSession(ctx.sid)
         THEN /\ Reply("Stop", ctx.sid, "FailedPrecondition", <<>>)
              /\ UNCHANGED <<aaaSessions, aaaTimeouts>>
         ELSE /\ RemoveSession(ctx.sid)
              /\ IF aaaConfig.accounting
                   THEN Reply("Stop", ctx.sid,
                              IF smErr THEN "SmError" ELSE "OK",
                              <<SmEndSession(ctx.imsi)>>)
                   ELSE Reply("Stop", ctx.sid, "OK", <<>>)
  /\ UNCHANGED aaaConfig
  /\ AaaFrame

(* AcctTerminateSession that compares the IMSIs before it removes the     *)
(* session                                                                 *)
AcctTerminateSession_keep(sid, imsi, connErr, radErr) ==
  /\ aaaConfig.made
  /\ IF ~GetSession(sid)
       THEN /\ Reply("TerminateSession", sid, "FailedPrecondition", <<>>)
            /\ UNCHANGED <<aaaSessions, aaaTimeouts>>
       ELSE IF makeSID(StoredSession(sid).imsi) # imsi
         THEN /\ Reply("TerminateSession", sid, "InvalidArgument", <<>>)
              /\ UNCHANGED <<aaaSessions, aaaTimeouts>>
         ELSE /\ RemoveSession(sid)
              /\ IF connErr
                   THEN Reply("TerminateSession", sid, "Unavailable", <<>>)
                   ELSE Reply("TerminateSession", sid,
                              IF radErr THEN "RadiusError" ELSE "OK",
                              <<RadiusDisconnect(sid, StoredSession(sid).imsi)>>)
  /\ UNCHANGED aaaConfig
  /\ AaaFrame

(* lines 138-167; sid, imsi: the request's radius session id and IMSI;    *)
(* connErr: no connection to the Radius server; radErr: Disconnect fails  *)
AcctTerminateSession(sid, imsi, connErr, radErr) ==
  /\ aaaConfig.made
  /\ IF ~GetSession(sid)
       THEN /\ Reply("TerminateSession", sid, "FailedPrecondition", <<>>)
            /\ UNCHANGED <<aaaSessions, aaaTimeouts>>
       ELSE /\ RemoveSession(sid)
            /\ IF makeSID(StoredSession(sid).imsi) # imsi
                 THEN Reply("TerminateSession", sid, "InvalidArgument", <<>>)
                 ELSE IF connErr
                   THEN Reply("TerminateSession", sid, "Unavailable", <<>>)
                   ELSE Reply("TerminateSession", sid,
                              IF radErr THEN "RadiusError" ELSE "OK",
                              <<RadiusDisconnect(sid, StoredSession(sid).imsi)>>)
  /\ UNCHANGED aaaConfig
  /\ AaaFrame

(* the error EndTimedOutSession returns, lines 176-196 *)
TimedOutCode(smFailed, connErr, radErr) ==
  IF connErr \/ radErr
    THEN IF smFailed THEN "Internal"
         ELSE IF connErr THEN "Unavailable" ELSE "RadiusError"
    ELSE IF smFailed THEN "SmError" ELSE "OK"

(* EndTimedOutSession that gives up when the session manager fails *)
EndTimedOutSession_giveup(sid, imsi, smErr, connErr, radErr) ==
  LET sm == IF aaaConfig.accounting THEN <<SmEndSession(imsi)>> ELSE <<>>
      smFailed == aaaConfig.accounting /\ smErr
      rad == IF connErr \/ smFailed THEN <<>>
             ELSE <<RadiusDisconnect(sid, imsi)>>
  IN  Reply("EndTimedOutSession", sid,
            TimedOutCode(smFailed, connErr, radErr), sm \o rad)

(* lines 171-197, for the context [sid, imsi] of a timed out session *)
EndTimedOutSession(sid, imsi, smErr, connErr, radErr) ==
  LET sm == IF aaaConfig.accounting THEN <<SmEndSession(imsi)>> ELSE <<>>
      smFailed == aaaConfig.accounting /\ smErr
      rad == IF connErr THEN <<>> ELSE <<RadiusDisconnect(sid, imsi)>>
  IN  Reply("EndTimedOutSession", sid,
            TimedOutCode(smFailed, connErr, radErr), sm \o rad)

(* the idle timeout of a session expires: the table removes the session   *)
(* and calls timeoutSessionNotifier (lines 199-204) with it                *)
AaaTimeoutExpires(sid, smErr, connErr, radErr) ==
  /\ aaaConfig.made
  /\ sid \in aaaTimeouts
  /\ GetSession(sid)
  /\ RemoveSession(sid)
  /\ EndTimedOutSession(sid, StoredSession(sid).imsi, smErr, connErr, radErr)
  /\ UNCHANGED aaaConfig
  /\ AaaFrame

----------------------------------------------------------------------------
(* The update location procedure of the MME (mme_app_location.c) for the  *)
(* UE context of one known IMSI. Each function is one step; a message     *)
(* allocation, a message send, a timer start and a timer stop can fail.   *)

(* MME_APP_TIMER_INACTIVE_ID *)
TimerInactive == 0

TimerIds == 1..MaxTimers

(* the values the subscription data of an answer can have; 0: none stored *)
SubData == 1..NSubData

(* ULA.result: present and choice *)
UlaResults == {"BASE_SUCCESS", "BASE_FAILURE", "EXPERIMENTAL"}

MmeUp == mmeLast.rc # "crash"

MmeFrame ==
  UNCHANGED <<epochVars, th, evb, usageVars, setupVars, rrsVars, sessions,
              creates, terms, nCreate, createArgs, nEnd, nCreateCalls,
              nTermCalls, createAcks, endAcks, acctRet, aaaVars>>

(* the operation op returns rc after passing s6a to the S6A task and nas  *)
(* to the NAS task                                                         *)
MmeReturn(op, rc, s6a, nas) ==
  mmeLast' = [op |-> op, rc |-> rc, s6a |-> s6a, nas |-> nas]

(* the return code of itti_send_msg_to_task *)
SendRc(sendOk) == IF sendOk THEN "RETURNok" ELSE "RETURNerror"

(* timer_setup succeeded: a timer with a new id runs *)
NewTimer == CHOOSE id \in TimerIds : id \notin mmeTimers

(* HSS reset: the location information has to be confirmed in the HSS *)
MmeHssReset ==
  /\ MmeUp
  /\ ~ue.location_info_confirmed_in_hss
  /\ ue' = [ue EXCEPT !.location_info_confirmed_in_hss = TRUE]
  /\ UNCHANGED <<mmeTimers, mmeLast>>
  /\ MmeFrame

(* a one-shot timer expires in the timer service *)
MmeTimerExpires(id) ==
  /\ MmeUp
  /\ id \in mmeTimers
  /\ mmeTimers' = mmeTimers \ {id}
  /\ UNCHANGED <<ue, mmeLast>>
  /\ MmeFrame

(* mme_app_send_s6a_update_location_req that starts the timer whatever    *)
(* location_info_confirmed_in_hss is                                       *)
mme_app_send_s6a_update_location_req_always(allocOk, sendOk, timerOk) ==
  /\ MmeUp
  /\ timerOk => mmeTimers # TimerIds
  /\ IF ~allocOk
       THEN /\ MmeReturn("ulr", "RETURNerror", <<>>, <<>>)
            /\ UNCHANGED <<ue, mmeTimers>>
       ELSE /\ MmeReturn("ulr", SendRc(sendOk),
                  <<[type |-> "S6A_UPDATE_LOCATION_REQ",
                     skip_subscriber_data |->
                       ue.location_info_confirmed_in_hss]>>, <<>>)
            /\ IF timerOk
                 THEN /\ ue' = [ue EXCEPT !.timer_id = NewTimer]
                      /\ mmeTimers' = mmeTimers \cup {NewTimer}
                 ELSE /\ ue' = [ue EXCEPT !.timer_id = TimerInactive]
                      /\ UNCHANGED mmeTimers
  /\ MmeFrame

(* lines 61-168; allocOk: itti_alloc_new_message gives a message; sendOk: *)
(* itti_send_msg_to_task returns RETURNok; timerOk: timer_setup succeeds  *)
mme_app_send_s6a_update_location_req(allocOk, sendOk, timerOk) ==
  /\ MmeUp
  /\ timerOk => mmeTimers # TimerIds
  /\ IF ~allocOk
       THEN /\ MmeReturn("ulr", "RETURNerror", <<>>, <<>>)
            /\ UNCHANGED <<ue, mmeTimers>>
       ELSE /\ MmeReturn("ulr", SendRc(sendOk),
                  <<[type |-> "S6A_UPDATE_LOCATION_REQ",
                     skip_subscriber_data |->
                       ue.location_info_confirmed_in_hss]>>, <<>>)
            /\ IF ~ue.location_info_confirmed_in_hss
                 THEN IF timerOk
                   THEN /\ ue' = [ue EXCEPT !.timer_id = NewTimer]
                        /\ mmeTimers' = mmeTimers \cup {NewTimer}
                   ELSE /\ ue' = [ue EXCEPT !.timer_id = TimerInactive]
                        /\ UNCHANGED mmeTimers
                 ELSE UNCHANGED <<ue, mmeTimers>>
  /\ MmeFrame

(* "Stop ULR Response timer if running", lines 177-185 and 275-283: the   *)
(* timers left running; removeOk: timer_remove succeeds                   *)
StopUlrTimer(removeOk) ==
  IF ue.timer_id # TimerInactive /\ removeOk
    THEN mmeTimers \ {ue.timer_id}
    ELSE mmeTimers

(* the messages to the NAS task *)
NasPdnConnectivityFail ==
  [type |-> "NAS_PDN_CONNECTIVITY_FAIL", cause |-> "CAUSE_SYSTEM_FAILURE"]
NasPdnConfigRsp == [type |-> "NAS_PDN_CONFIG_RSP", cause |-> "none"]
NasNullMessage == [type |-> "NULL", cause |-> "none"]

(* lines 170-207, as called from the answer handler (lines 234-267, with  *)
(* its unlock_ue_contexts). The message is used without a check: when it  *)
(* is NULL the writes through it are undefined, ub is what happens then.  *)
_handle_ula_failure(allocOk, sendOk, removeOk, ub) ==
  /\ mmeTimers' = StopUlrTimer(removeOk)
  /\ IF allocOk
       THEN /\ ue' = [ue EXCEPT !.timer_id = TimerInactive, !.locked = FALSE]
            /\ MmeReturn("ula", SendRc(sendOk), <<>>,
                         <<NasPdnConnectivityFail>>)
       ELSE /\ ue' = [ue EXCEPT !.timer_id = TimerInactive,
                                !.locked = (ub = "crash")]
            /\ IF ub = "crash"
                 THEN MmeReturn("ula", "crash", <<>>, <<>>)
                 ELSE MmeReturn("ula", SendRc(sendOk), <<>>,
                                <<NasNullMessage>>)

(* lines 210-377; known: the IMSI of the answer has a UE context; result, *)
(* sub: the answer's result and subscription data                         *)
mme_app_handle_s6a_update_location_ans(known, result, sub, allocOk, sendOk, removeOk, ub) ==
  /\ MmeUp
  /\ ~ue.locked
  /\ IF ~known
       THEN /\ MmeReturn("ula", "RETURNerror", <<>>, <<>>)
            /\ UNCHANGED <<ue, mmeTimers>>
       ELSE IF result # "BASE_SUCCESS"
         THEN _handle_ula_failure(allocOk, sendOk, removeOk, ub)
         ELSE /\ mmeTimers' = StopUlrTimer(removeOk)
              /\ IF ~allocOk
                   THEN /\ ue' = [ue EXCEPT !.timer_id = TimerInactive,
                                            !.subscription_known = TRUE,
                                            !.subscription_data = sub,
                                            !.locked = FALSE]
                        /\ MmeReturn("ula", "RETURNerror", <<>>, <<>>)
                   ELSE /\ ue' = [ue EXCEPT
                                    !.timer_id = TimerInactive,
                                    !.subscription_known = TRUE,
                                    !.subscription_data = sub,
                                    !.send_ue_purge_request = TRUE,
                                    !.location_info_confirmed_in_hss = FALSE,
                                    !.locked = FALSE]
                        /\ MmeReturn("ula", SendRc(sendOk), <<>>,
                                     <<NasPdnConfigRsp>>)
  /\ MmeFrame

(* the S1 connection of the UE is set up or released *)
MmeEcmChange ==
  /\ MmeUp
  /\ ue' = [ue EXCEPT !.ecm_state = IF ue.ecm_state = "ECM_IDLE"
                                      THEN "ECM_CONNECTED" ELSE "ECM_IDLE"]
  /\ UNCHANGED <<mmeTimers, mmeLast>>
  /\ MmeFrame

(* the UE gets an SGs context (combined attach) *)
MmeSgsAttach ==
  /\ MmeUp
  /\ ~ue.sgs_context
  /\ ue' = [ue EXCEPT !.sgs_context = TRUE]
  /\ UNCHANGED <<mmeTimers, mmeLast>>
  /\ MmeFrame

(* cancellation types of a Cancel Location Request *)
CancellationTypes == {"SUBSCRIPTION_WITHDRAWL", "MME_UPDATE_PROCEDURE"}

(* the messages the cancel location handler passes on *)
S6aCancelLocationAns ==
  [type |-> "S6A_CANCEL_LOCATION_ANS", result |-> "DIAMETER_SUCCESS"]
PagingRequest == [type |-> "PAGING_REQUEST", cause |-> "CN_DOMAIN_PS"]
NasDetachRequest ==
  [type |-> "NAS_DETACH_REQ", cause |-> "HSS_INITIATED_EPS_DETACH"]
SgsDetachRequest ==
  [type |-> "SGS_DETACH_REQ", cause |-> "SGS_DETACH_TYPE_NW_INITIATED_EPS"]

(* lines 466-495: what reaches the S6A task; nothing when no message      *)
(* could be allocated                                                      *)
mme_app_send_s6a_cancel_location_ans(allocOk) ==
  IF allocOk THEN <<S6aCancelLocationAns>> ELSE <<>>

(* mme_app_handle_s6a_cancel_location_req that answers only requests it   *)
(* acts on                                                                 *)
mme_app_handle_s6a_cancel_location_req_late(known, ctype, allocOk, detachOk) ==
  /\ MmeUp
  /\ ~ue.locked
  /\ UNCHANGED mmeTimers
  /\ IF ~known
       THEN /\ MmeReturn("clr", "RETURNerror", <<>>, <<>>)
            /\ UNCHANGED ue
       ELSE IF ctype # "SUBSCRIPTION_WITHDRAWL"
         THEN /\ MmeReturn("clr", "RETURNerror", <<>>, <<>>)
              /\ ue' = [ue EXCEPT !.locked = FALSE]
         ELSE IF ue.ecm_state = "ECM_IDLE"
           THEN /\ ue' = [ue EXCEPT !.hss_initiated_detach = TRUE,
                                    !.nw_init_bearer_deactv = TRUE,
                                    !.locked = TRUE]
                /\ MmeReturn("clr", "RETURNok",
                             mme_app_send_s6a_cancel_location_ans(allocOk),
                             <<PagingRequest>>)
           ELSE /\ ue' = [ue EXCEPT !.hss_initiated_detach = TRUE,
                                    !.locked = FALSE]
                /\ MmeReturn("clr", SendRc(detachOk),
                             mme_app_send_s6a_cancel_location_ans(allocOk),
                             <<NasDetachRequest>> \o
                               (IF ue.sgs_context THEN <<SgsDetachRequest>>
                                ELSE <<>>))
  /\ MmeFrame

(* lines 379-464; known: the IMSI of the request has a UE context; ctype: *)
(* its cancellation type; allocOk: itti_alloc_new_message gives the       *)
(* answer message; detachOk: mme_app_send_nas_detach_request returns      *)
(* RETURNok. The ECM_IDLE path returns without unlock_ue_contexts.        *)
mme_app_handle_s6a_cancel_location_req(known, ctype, allocOk, detachOk) ==
  /\ MmeUp
  /\ ~ue.locked
  /\ UNCHANGED mmeTimers
  /\ IF ~known
       THEN /\ MmeReturn("clr", "RETURNerror",
                         mme_app_send_s6a_cancel_location_ans(allocOk), <<>>)
            /\ UNCHANGED ue
       ELSE IF ctype # "SUBSCRIPTION_WITHDRAWL"
         THEN /\ MmeReturn("clr", "RETURNerror",
                           mme_app_send_s6a_cancel_location_ans(allocOk),
                           <<>>)
              /\ ue' = [ue EXCEPT !.locked = FALSE]
         ELSE IF ue.ecm_state = "ECM_IDLE"
           THEN /\ ue' = [ue EXCEPT !.hss_initiated_detach = TRUE,
                                    !.nw_init_bearer_deactv = TRUE,
                                    !.locked = TRUE]
                /\ MmeReturn("clr", "RETURNok",
                             mme_app_send_s6a_cancel_location_ans(allocOk),
                             <<PagingRequest>>)
           ELSE /\ ue' = [ue EXCEPT !.hss_initiated_detach = TRUE,
                                    !.locked = FALSE]
                /\ MmeReturn("clr", SendRc(detachOk),
                             mme_app_send_s6a_cancel_location_ans(allocOk),
                             <<NasDetachRequest>> \o
                               (IF ue.sgs_context THEN <<SgsDetachRequest>>
                                ELSE <<>>))
  /\ MmeFrame

----------------------------------------------------------------------------
(* The epoch handling of ReportRuleStats, seen apart: the reports carry no *)
(* records, the CreditEngine produces no update, and pipelined has not yet *)
(* answered the setup calls, which stay outstanding.                       *)
NextEpoch ==
  \/ \E c \in Callers, e \in Epochs : ReportRuleStats(c, e, EmptyBag)
  \/ \E c \in Callers : RRS_CheckRestart(c)
  \/ \E c \in Callers : RRS_SetCurrentEpoch(c)
  \/ RunRuleStats
  \/ RunSetup

SpecEpoch == Init /\ [][NextEpoch]_vars

(* the epoch pipelined reports while it is not restarted *)
SteadyEpoch == 1

(* The setup calls and their retries, seen apart: one caller thread *)
NextSetup ==
  \/ \E e \in Epochs : ReportRuleStats(1, e, EmptyBag)
  \/ RRS_CheckRestart(1)
  \/ RRS_SetCurrentEpoch(1)
  \/ RunRuleStats
  \/ RunSetup
  \/ RunScheduleRetry
  \/ \E e \in Epochs : RetryTimeout(e)
  \/ \E s \in setups, ok \in BOOLEAN, result \in SetupResults :
       SetupResponse(s, ok, result)

SpecSetup == Init /\ [][NextSetup]_vars

(* ReportRuleStats with what it sets off, seen apart: one caller thread,   *)
(* reports with records, pipelined reporting epoch 0 or the steady epoch,  *)
(* setup calls answered SUCCESS or FAILURE (the retry is scheduled, its    *)
(* timeout has not yet fired), report calls answered or failed             *)
NextRuleStats ==
  \/ \E e \in {0, SteadyEpoch}, recs \in NewRecords :
       ReportRuleStats(1, e, recs)
  \/ RRS_CheckRestart(1)
  \/ RRS_SetCurrentEpoch(1)
  \/ RunRuleStats
  \/ RunSetup
  \/ RunScheduleRetry
  \/ \E s \in setups, result \in {"SUCCESS", "FAILURE"} :
       SetupResponse(s, TRUE, result)
  \/ RunReportCallback
  \/ \E r \in reports, ok \in BOOLEAN : ReportResponse(r, ok)

SpecRuleStats == Init /\ [][NextRuleStats]_vars

(* The reporting loop, seen apart: one caller thread, pipelined reports the *)
(* same epoch every time and does not answer the setup call.                *)
NextUsage ==
  \/ \E recs \in NewRecords : ReportRuleStats(1, SteadyEpoch, recs)
  \/ RRS_CheckRestart(1)
  \/ RRS_SetCurrentEpoch(1)
  \/ RunRuleStats
  \/ RunSetup
  \/ RunReportCallback
  \/ \E r \in reports, ok \in BOOLEAN : ReportResponse(r, ok)
  \/ CreditAccumulate

SpecUsage == Init /\ [][NextUsage]_vars

(* Session creation and termination, seen apart: no rule-stat reports *)
NextSession ==
  \/ \E c \in Callers, i \in Imsis, cfg \in Cfgs : CreateSession(c, i, cfg)
  \/ \E c \in Callers : CS_CheckSession(c)
  \/ \E r \in creates, ok \in BOOLEAN : CreateResponse(r, ok)
  \/ RunCreateCallback
  \/ \E c \in Callers, i \in Imsis : EndSession(c, i)
  \/ RunEndSession
  \/ \E s \in sessions : CompleteTermination(s)
  \/ \E t \in terms, ok \in BOOLEAN : TermResponse(t, ok)

SpecSession == Init /\ [][NextSession]_vars

(* The event base runs the closures queued on it, and the termination    *)
(* of a session completes within the termination timeout.                 *)
SpecSessionLive ==
  /\ SpecSession
  /\ WF_vars(RunCreateCallback)
  /\ WF_vars(RunEndSession)
  /\ WF_vars(\E s \in sessions : CompleteTermination(s))

(* Session creation as the accounting service drives it: the sessions     *)
(* are created on its behalf and it continues when a call returns         *)
NextAcct ==
  \/ NextSession
  \/ \E a \in BagToSet(createAcks) : AcctCreateSessionReturn(a)

SpecAcct == Init /\ [][NextAcct]_vars

(* The accounting service, seen apart: its construction and the          *)
(* authenticator filling the session table                                 *)
NextAaaTable ==
  \/ \E a, b \in BOOLEAN : NewAccountingService(a, b)
  \/ \E sid \in AaaSids, imsi \in AaaImsis : AaaAddSession(sid, imsi)

(* the Radius accounting endpoints Start, InterimUpdate and Stop *)
NextAaaAcct ==
  \/ NextAaaTable
  \/ \E ctx \in AaaCtxs \cup {NilCtx}, smErr \in BOOLEAN : AcctStart(ctx, smErr)
  \/ \E ctx \in AaaCtxsNoMac \cup {NilCtx} : AcctInterimUpdate(ctx)
  \/ \E ctx \in AaaCtxsNoMac \cup {NilCtx}, smErr \in BOOLEAN :
       AcctStop(ctx, smErr)

SpecAaaAcct == Init /\ [][NextAaaAcct]_vars

(* the ends of a session that do not come from the Radius client: the    *)
(* session manager's TerminateSession and the idle timeout, which         *)
(* InterimUpdate sets                                                      *)
NextAaaEnd ==
  \/ NextAaaTable
  \/ \E ctx \in AaaCtxsNoMac \cup {NilCtx} : AcctInterimUpdate(ctx)
  \/ \E sid \in AaaSids, imsi \in AaaImsis, connErr, radErr \in BOOLEAN :
       AcctTerminateSession(sid, imsi, connErr, radErr)
  \/ \E sid \in AaaSids, smErr, connErr, radErr \in BOOLEAN :
       AaaTimeoutExpires(sid, smErr, connErr, radErr)

SpecAaaEnd == Init /\ [][NextAaaEnd]_vars

NextAaa == NextAaaAcct \/ NextAaaEnd

SpecAaa == Init /\ [][NextAaa]_vars

(* The update location procedure of the MME, seen apart. *)
NextMme ==
  \/ MmeHssReset
  \/ \E id \in TimerIds : MmeTimerExpires(id)
  \/ \E allocOk, sendOk, timerOk \in BOOLEAN :
       mme_app_send_s6a_update_location_req(allocOk, sendOk, timerOk)
  \/ \E known, allocOk, sendOk, removeOk \in BOOLEAN, result \in UlaResults,
        sub \in SubData, ub \in {"crash", "sent"} :
       mme_app_handle_s6a_update_location_ans(known, result, sub, allocOk,
                                              sendOk, removeOk, ub)

SpecMme == Init /\ [][NextMme]_vars

(* The HSS-driven procedures of the MME, seen apart: the answer to an    *)
(* update location and the cancel location request                        *)
NextMmeHss ==
  \/ MmeEcmChange
  \/ MmeSgsAttach
  \/ \E allocOk, sendOk, timerOk \in BOOLEAN :
       mme_app_send_s6a_update_location_req(allocOk, sendOk, timerOk)
  \/ \E known, allocOk, sendOk, removeOk \in BOOLEAN, result \in UlaResults,
        sub \in SubData, ub \in {"crash", "sent"} :
       mme_app_handle_s6a_update_location_ans(known, result, sub, allocOk,
                                              sendOk, removeOk, ub)
  \/ \E known, allocOk, detachOk \in BOOLEAN, ctype \in CancellationTypes :
       mme_app_handle_s6a_cancel_location_req(known, ctype, allocOk, detachOk)

SpecMmeHss == Init /\ [][NextMmeHss]_vars

Next == NextEpoch \/ NextSetup \/ NextRuleStats \/ NextUsage \/ NextAcct
          \/ NextAaa \/ NextMme \/ NextMmeHss

Spec == Init /\ [][Next]_vars

----------------------------------------------------------------------------
(* Properties of the usage-reporting loop (checked under SpecUsage) *)

RECURSIVE SeqRequests(_)
(* the bag of updates carried by the report callbacks queued in q *)
SeqRequests(q) ==
  IF q = <<>> THEN EmptyBag
  ELSE (IF Head(q).kind = "report_cb" THEN Head(q).request ELSE EmptyBag)
       (+) SeqRequests(Tail(q))

RECURSIVE SetRequests(_)
(* the bag of updates carried by the report calls in R *)
SetRequests(R) ==
  IF R = {} THEN EmptyBag
  ELSE LET r == CHOOSE x \in R : TRUE
       IN r.request (+) SetRequests(R \ {r})

RECURSIVE SeqRecords(_)
(* the records of the rule-stat closures queued in q, not yet aggregated *)
SeqRecords(q) ==
  IF q = <<>> THEN EmptyBag
  ELSE (IF Head(q).kind = "rrs" THEN Head(q).recs ELSE EmptyBag)
       (+) SeqRecords(Tail(q))

(* report calls whose response has not been processed yet *)
ReportsInFlight ==
  Cardinality(reports)
    + Cardinality({i \in DOMAIN evb : evb[i].kind = "report_cb"})

FailureStep == HeadIs("report_cb") /\ ~Head(evb).ok /\ evb' = Tail(evb)
SuccessStep == HeadIs("report_cb") /\ Head(evb).ok /\ evb' = Tail(evb)
RuleStatsStep == HeadIs("rrs") /\ evb' = Tail(evb)

(* C3: when a report call fails, the pending updates become what they were *)
(* plus exactly the snapshot that was in flight, no acknowledgement is     *)
(* applied, the failure handling issues no report call, and a report call  *)
(* is only ever issued by a rule-stats pass or by the continuation of a    *)
(* successful report.                                                      *)
C3_RollbackOnFailure ==
  /\ [][FailureStep =>
          /\ pending' = pending (+) Head(evb).request
          /\ acked' = acked
          /\ reports' = reports
          /\ nReports' = nReports]_vars
  /\ [][nReports' # nReports => RuleStatsStep \/ SuccessStep]_vars

(* the one update produced was reported once and is pending again *)
C3_Witness ==
  /\ nUpd = 1
  /\ nReports = 1
  /\ pending = SetToBag({1})
  /\ ReportsInFlight = 0
  /\ acked = EmptyBag

(* C4: a successful report applies the acknowledgement and runs the loop   *)
(* again at once: whatever accumulated while the call was in flight is     *)
(* sent in a further report call, and the pending updates end empty.       *)
C4_DrainOnSuccess ==
  [][SuccessStep =>
       /\ acked' = acked (+) Head(evb).request
       /\ pending' = EmptyBag
       /\ IF pending = EmptyBag
            THEN nReports' = nReports /\ reports' = reports
            ELSE /\ nReports' = nReports + 1
                 /\ \E r \in reports' \ reports : r.request = pending]_vars

(* one rule-stats call, one update accumulated mid-flight, two reports *)
C4_Witness ==
  /\ nRRS = 1
  /\ nUpd = 2
  /\ nReports = 2
  /\ ReportsInFlight = 0
  /\ pending = EmptyBag
  /\ acked = SetToBag({1, 2})

(* C5: at most one report call is in flight at any time.                   *)
C5_AtMostOneReportInFlight == ReportsInFlight <= 1

(* C6: every update produced so far is in exactly one place, once: in a   *)
(* rule-stats closure not yet aggregated, pending in the CreditEngine, in  *)
(* a report call that is in flight (unanswered, or answered with the       *)
(* callback still queued), or acknowledged.                                *)
C6_NoLossNoDuplication ==
  pending (+) SetRequests(reports) (+) SeqRequests(evb) (+) acked
    (+) SeqRecords(evb)
  = SetToBag(1..nUpd)

(* after a failed and a successful report: one update is acknowledged, *)
(* the other is pending again                                          *)
C6_Witness ==
  /\ nUpd = 2
  /\ nReports = 2
  /\ ReportsInFlight = 0
  /\ acked = SetToBag({1})
  /\ pending = SetToBag({2})

----------------------------------------------------------------------------
(* Properties of the epoch handling (checked under SpecEpoch) *)

(* setup calls for epoch e requested by restart_pipelined: the closures    *)
(* still queued and the calls already made, retries left out               *)
RequestedSetups(e) ==
  Cardinality({i \in DOMAIN evb : evb[i] = restart_pipelined(e)})
    + CopiesIn([epoch |-> e, retry |-> FALSE], setupCalls)

AllIdle == \A c \in Callers : th[c].pc = "idle"

(* caller thread c is inside ReportRuleStats *)
InRuleStats(c) == th[c].pc \in {"rrs_check", "rrs_set"}

(* one ReportRuleStats was made, with a non-zero epoch, and it returned *)
SingleReport == nRRS = 1 /\ rrsEpochs # {0} /\ AllIdle

(* the epoch all the ReportRuleStats calls made so far carried *)
TheEpoch == CHOOSE e \in rrsEpochs : TRUE

(* C7: from current_epoch = 0, once a single ReportRuleStats with non-zero *)
(* epoch E has returned, current_epoch is E and exactly one setup call,    *)
(* for E, has been requested, whether or not that call has been answered.  *)
C7_SingleResync ==
  SingleReport =>
    /\ current_epoch = TheEpoch
    /\ RequestedSetups(TheEpoch) = 1
    /\ \A e \in Epochs \ {TheEpoch} : RequestedSetups(e) = 0

(* the call returned while its setup closure has not even run *)
C7_Witness ==
  /\ SingleReport
  /\ current_epoch = TheEpoch
  /\ \E i \in DOMAIN evb : evb[i].kind = "setup"
  /\ setupCalls = EmptyBag

CheckStep(c) == th[c].pc = "rrs_check" /\ th'[c].pc # "rrs_check"

(* C8: ReportRuleStats requests a setup for reported_epoch exactly when,   *)
(* with reported_epoch updated, current_epoch is 0 or differs from         *)
(* reported_epoch; otherwise it requests nothing.                          *)
C8_ResyncIffMismatch ==
  [][\A c \in Callers : CheckStep(c) =>
       IF current_epoch = 0 \/ current_epoch # reported_epoch
         THEN evb' = Append(evb, [kind |-> "setup", epoch |-> reported_epoch])
         ELSE evb' = evb]_vars

(* a report of epoch 0 while current_epoch is 0 has requested a setup *)
C8_Witness ==
  /\ \E c \in Callers : th[c].pc = "rrs_set"
  /\ current_epoch = 0
  /\ reported_epoch = 0
  /\ evb # <<>>
  /\ evb[Len(evb)] = [kind |-> "setup", epoch |-> 0]

(* C9: while every ReportRuleStats made so far, from whichever caller     *)
(* thread, carried the same non-zero epoch E, at most one setup call for E *)
(* is requested: the calls after the first find current_epoch = E.         *)
C9_NoDuplicateSetup ==
  (Cardinality(rrsEpochs) = 1 /\ TheEpoch # 0) =>
    RequestedSetups(TheEpoch) <= 1

(* C21: current_epoch never decreases.                                     *)
C21_CurrentEpochMonotonic == [][current_epoch' >= current_epoch]_vars

(* C26: when a ReportRuleStats call returns, current_epoch and             *)
(* reported_epoch both equal the epoch that call carried, whether it       *)
(* requested a setup or not.                                               *)
C26_EpochsEqualReport ==
  [][\A c \in Callers : (InRuleStats(c) /\ th'[c].pc = "idle") =>
       /\ current_epoch' = th[c].epoch
       /\ reported_epoch' = th[c].epoch]_vars

----------------------------------------------------------------------------
(* Properties of session creation and termination *)

SessionIds == 1..MaxCreate

InTable(sid) == \E s \in sessions : s.sid = sid

(* an EndSession closure for subscriber imsi is queued on the event base *)
EndQueued(imsi) ==
  \E i \in DOMAIN evb :
    evb[i] \in {EndClosure(imsi, call) : call \in 0..MaxEnd}

(* the sessions an EndSession has been asked for: their subscriber has an  *)
(* EndSession closure queued, or the closure ran and they are terminating  *)
Ending == {s.sid : s \in {x \in sessions : x.terminating \/ EndQueued(x.imsi)}}

(* C1: a session that is in the SessionTable when an EndSession for its    *)
(* subscriber is queued is eventually removed from the table. Stated in    *)
(* two parts: a session that EndSession was asked for stays so for as long *)
(* as it is in the table, and again and again no such session is in the    *)
(* table. The answer to the termination report is not waited for (under    *)
(* SpecSessionLive it may never come).                                     *)
C1_EndSessionRemoves ==
  /\ [][\A sid \in Ending : InTable(sid)' => sid \in Ending']_vars
  /\ []<>(Ending = {})

(* EndSession answered OK and the session is gone while its termination *)
(* report is still unanswered                                           *)
C1_Witness ==
  /\ \E t \in terms : ~InTable(t.sid)
  /\ \E a \in BagToSet(endAcks) : a.status = "OK"

NotFoundStep ==
  /\ HeadIs("end")
  /\ evb' = Tail(evb)
  /\ \A s \in sessions : s.imsi # Head(evb).imsi

(* C2: an EndSession for a subscriber without session answers              *)
(* FAILED_PRECONDITION and changes nothing else: no session changes, no    *)
(* termination report, no other call.                                      *)
C2_EndSessionNotFound ==
  [][NotFoundStep =>
       /\ sessions' = sessions
       /\ terms' = terms /\ nTermCalls' = nTermCalls
       /\ creates' = creates /\ nCreateCalls' = nCreateCalls
       /\ UNCHANGED <<usageVars, setupVars, epochVars>>
       /\ endAcks' =
            IF Head(evb).call = 0 THEN endAcks
            ELSE endAcks (+) SetToBag({[call |-> Head(evb).call,
                                        status |-> "FAILED_PRECONDITION"]})
     ]_vars

C2_Witness ==
  /\ sessions = {}
  /\ nTermCalls = 0
  /\ \E a \in BagToSet(endAcks) : a.status = "FAILED_PRECONDITION"

(* C10: two CreateSession calls with the same subscriber and Config, and   *)
(* no EndSession, make at most one billing create call and leave at most   *)
(* one session.                                                            *)
C10_IdempotentCreate ==
  (nCreate = 2 /\ Cardinality(createArgs) = 1 /\ nEnd = 0) =>
    /\ nCreateCalls <= 1
    /\ Cardinality(sessions) <= 1

(* caller thread c finds the subscriber's session with the very Config it *)
(* was asked to create, and returns                                       *)
DuplicateStep(c) ==
  /\ th[c].pc = "cs_sess"
  /\ is_session_duplicate(sessions, th[c].imsi, th[c].cfg)
  /\ th'[c].pc = "idle"

(* C11: a CreateSession that finds a live session of the subscriber with   *)
(* an identical Config answers the caller with success, creates and        *)
(* terminates nothing and makes no billing call; the call is not left      *)
(* without a response.                                                     *)
C11_DuplicateCreateAnswered ==
  [][\A c \in Callers : DuplicateStep(c) =>
       /\ createAcks' = createAcks (+) Ack(th[c].call, "OK")
       /\ sessions' = sessions
       /\ evb' = evb
       /\ creates' = creates /\ nCreateCalls' = nCreateCalls
       /\ terms' = terms /\ nTermCalls' = nTermCalls]_vars

(* caller thread c finds a session of the subscriber with another Config *)
ReplaceStep(c) ==
  /\ th[c].pc = "cs_sess"
  /\ ~is_session_duplicate(sessions, th[c].imsi, th[c].cfg)
  /\ th'[c].pc = "idle"

(* the create callback at the head of the event base answers OK *)
CreateOkStep ==
  /\ HeadIs("create_cb")
  /\ evb' = Tail(evb)
  /\ createAcks' = createAcks (+) Ack(Head(evb).call, "OK")

(* C12: a CreateSession whose Config differs from the subscriber's live    *)
(* session queues the EndSession of the old session and, in the same step, *)
(* issues the billing create call for the new one (it does not wait for    *)
(* the termination); when the billing call and the credit initialisation   *)
(* succeed, a session with the new Config is in the table, whatever the    *)
(* state of the old session's termination; only terminating sessions are   *)
(* removed, and with a single replacement and no EndSession call the       *)
(* replacement (session 2) is never made terminating.                      *)
C12_ReplaceOnConflict ==
  /\ [][\A c \in Callers : ReplaceStep(c) =>
          /\ evb' = Append(evb, EndClosure(th[c].imsi, 0))
          /\ \E r \in creates' \ creates :
               r.call = th[c].call /\ r.imsi = th[c].imsi /\ r.cfg = th[c].cfg
          /\ sessions' = sessions]_vars
  /\ [][CreateOkStep =>
          [sid |-> Head(evb).sid, imsi |-> Head(evb).imsi,
           cfg |-> Head(evb).cfg, terminating |-> FALSE] \in sessions']_vars
  /\ [][\A s \in sessions : ~InTable(s.sid)' => s.terminating]_vars
  /\ []((nEnd = 0 /\ nCreate <= 2) =>
          \A s \in sessions : s.terminating => s.sid = 1)

(* the replacement is in the table while the old session is still there, *)
(* terminating, its termination report not even sent                     *)
C12_Witness ==
  /\ nEnd = 0
  /\ nTermCalls = 0
  /\ \E s1 \in sessions, s2 \in sessions :
       /\ s1.sid = 1 /\ s1.terminating
       /\ s2.sid = 2 /\ ~s2.terminating
       /\ s1.imsi = s2.imsi /\ s1.cfg # s2.cfg

(* the sessions of subscriber imsi that are not terminating *)
LiveSessions(imsi) == {s \in sessions : s.imsi = imsi /\ ~s.terminating}

(* C13: the SessionTable never holds two live sessions of one subscriber. *)
C13_OneLiveSessionPerSubscriber ==
  \A i \in Imsis : Cardinality(LiveSessions(i)) <= 1

(* C14: a session's credit is initialised only in the step that handles    *)
(* the response of its billing create call, that response being a success  *)
(* (the call is no longer outstanding); and the accounting service sets    *)
(* the idle timeout only for a CreateSession that was answered OK.         *)
C14_InitAfterBillingSuccess ==
  /\ [][\A sid \in SessionIds : (~InTable(sid) /\ InTable(sid)') =>
          /\ HeadIs("create_cb")
          /\ evb' = Tail(evb)
          /\ Head(evb).sid = sid
          /\ Head(evb).ok
          /\ \A r \in creates : r.sid # sid]_vars
  /\ [](\A r \in acctRet : r.timeout <=>
          CopiesIn([call |-> r.call, status |-> "OK"], createAcks) = 1)

(* a created session whose idle timeout is set, and a failed CreateSession *)
(* that returned without one                                               *)
C14_Witness ==
  /\ \E r \in acctRet : r.timeout /\ InTable(gen_session_id(r.call))
  /\ \E r \in acctRet : ~r.timeout /\ ~InTable(gen_session_id(r.call))

(* the create callback at the head of the event base is run *)
CreateCallbackStep == HeadIs("create_cb") /\ evb' = Tail(evb)

(* C15: a CreateSession whose billing call fails, or whose credit          *)
(* initialisation fails, adds no session and is answered exactly once,     *)
(* with the billing call's own status in the first case and with           *)
(* FAILED_PRECONDITION in the second; no CreateSession is answered twice.  *)
C15_FailedCreateAddsNothing ==
  /\ [][(CreateCallbackStep /\ ~Head(evb).ok) =>
          /\ sessions' = sessions
          /\ createAcks' = createAcks (+) Ack(Head(evb).call, "BILLING_ERROR")
       ]_vars
  /\ [][(CreateCallbackStep /\ Head(evb).ok
            /\ \A s \in sessions' : s.sid # Head(evb).sid) =>
          /\ sessions' = sessions
          /\ createAcks' =
               createAcks (+) Ack(Head(evb).call, "FAILED_PRECONDITION")
       ]_vars
  /\ [](\A a \in BagToSet(createAcks), b \in BagToSet(createAcks) :
          a.call = b.call => a = b /\ createAcks[a] = 1)

(* one CreateSession failed at billing, another at the initialisation, *)
(* and the table is empty                                               *)
C15_Witness ==
  /\ sessions = {}
  /\ \E a \in BagToSet(createAcks) : a.status = "BILLING_ERROR"
  /\ \E a \in BagToSet(createAcks) : a.status = "FAILED_PRECONDITION"

----------------------------------------------------------------------------
(* Properties of ReportRuleStats as a call (checked under SpecRuleStats) *)

(* C16: every ReportRuleStats call is answered exactly once, with OK: the  *)
(* step in which a caller thread leaves the handler answers its call with  *)
(* OK, no call is answered twice or otherwise, whenever no thread is       *)
(* inside the handler all the calls made are answered, and a thread inside *)
(* the handler can always take its next step, whatever is queued on the    *)
(* event base or outstanding at pipelined and billing.                     *)
C16_AlwaysAcknowledged ==
  /\ [][\A c \in Callers : (InRuleStats(c) /\ th'[c].pc = "idle") =>
          rrsAcks' = rrsAcks (+) Ack(th[c].call, "OK")]_vars
  /\ [](\A a \in BagToSet(rrsAcks) : a.status = "OK" /\ rrsAcks[a] = 1)
  /\ [](AllIdle =>
          BagToSet(rrsAcks) = {[call |-> k, status |-> "OK"] : k \in 1..nRRS})
  /\ [](\A c \in Callers :
          /\ th[c].pc = "rrs_check" => ENABLED RRS_CheckRestart(c)
          /\ th[c].pc = "rrs_set" => ENABLED RRS_SetCurrentEpoch(c))

(* both calls are answered while the records of the second are not yet    *)
(* aggregated, a report call is outstanding and so is a setup call         *)
C16_Witness ==
  /\ AllIdle
  /\ nRRS = 2
  /\ BagCardinality(rrsAcks) = 2
  /\ \E i \in DOMAIN evb : evb[i].kind = "rrs"
  /\ reports # {}
  /\ setups # {}

----------------------------------------------------------------------------
(* Properties of the threading *)

(* caller thread c is inside a public operation, between two of its       *)
(* accesses to the epochs or to the SessionTable                           *)
InHandler(c) == InRuleStats(c) \/ th[c].pc = "cs_sess"

(* C17: the epochs are read and written on the event-base thread only: a   *)
(* step that changes current_epoch or reported_epoch is the run of a       *)
(* closure queued on the event base, and no two caller threads are inside  *)
(* a public operation, between their accesses to the shared state, at the  *)
(* same time.                                                              *)
C17_SharedStateOnWorkerOnly ==
  /\ [][epochVars' # epochVars => (evb # <<>> /\ evb' = Tail(evb))]_vars
  /\ [](Cardinality({c \in Callers : InHandler(c)}) <= 1)

----------------------------------------------------------------------------
(* Properties of the termination report (checked under SpecSession) *)

(* C18: the answer to a termination report changes nothing but the set of  *)
(* outstanding reports (no session comes back, nothing is sent again, no   *)
(* response is changed); a session leaves the table in the very step that  *)
(* sends its termination report, so its removal has not waited for the     *)
(* answer; and the step that answers EndSession sends no report at all.    *)
C18_TerminationReportIgnored ==
  /\ [][(\E t \in terms : t \notin terms') =>
          UNCHANGED <<sessions, evb, th, creates, nCreateCalls, nTermCalls,
                      createAcks, endAcks, epochVars, usageVars, setupVars>>
       ]_vars
  /\ [][\A s \in sessions : ~InTable(s.sid)' =>
          \E t \in terms' \ terms : t.sid = s.sid]_vars
  /\ [][endAcks' # endAcks => (terms' = terms /\ nTermCalls' = nTermCalls)
       ]_vars

(* EndSession was answered OK, the session is gone, its one termination *)
(* report has been answered, and nothing has followed                   *)
C18_Witness ==
  /\ sessions = {}
  /\ terms = {}
  /\ nTermCalls = 1
  /\ evb = <<>>
  /\ \E a \in BagToSet(endAcks) : a.status = "OK"

----------------------------------------------------------------------------
(* Properties of the setup retries (checked under SpecSetup) *)

(* C19: the completion of a setup call for epoch E schedules at most one   *)
(* retry, and that for E; a retry timeout that fires calls setup for the   *)
(* epoch it was armed with.                                                *)
C19_OneRetryPerCompletion ==
  /\ [][\A s \in setups : s \notin setups' =>
          \/ evb' = evb
          \/ evb' = Append(evb, RetryClosure(s.epoch))]_vars
  /\ [][BagCardinality(timers') < BagCardinality(timers) =>
          \E s \in setups' \ setups :
            /\ BagIn(s.epoch, timers)
            /\ timers' = timers (-) SetToBag({s.epoch})]_vars

(* C20: with a single setup requested (one ReportRuleStats), once a        *)
(* completion for epoch E schedules no retry (it reported SUCCESS or       *)
(* OUTDATED_EPOCH), nothing is left that would call setup for E again: no  *)
(* retry closure, no armed timeout, no outstanding call.                   *)
C20_RetriesStopAtTerminal ==
  [][\A s \in setups : (nRRS = 1 /\ s \notin setups' /\ evb' = evb) =>
       /\ ~BagIn(s.epoch, timers')
       /\ \A i \in DOMAIN evb' : evb'[i] # RetryClosure(s.epoch)
       /\ \A x \in setups' : x.epoch # s.epoch]_vars

Replaced ==
  /\ nEnd = 0
  /\ nCreate = 2
  /\ (nTermCalls > 0 \/ \E s \in sessions : s.terminating)

(* CreateSession call k was answered with a failure *)
CreateFailed(k) ==
  \E a \in BagToSet(createAcks) : a.call = k /\ a.status # "OK"

(* C27: the termination of the old session started by a replacing          *)
(* CreateSession is never undone (a terminating session never becomes live *)
(* again, whatever the outcome of the new creation) and it is started while *)
(* the new billing create call is still outstanding; when the replacing     *)
(* creation has failed the subscriber has no live session.                  *)
C27_ReplaceThenFail ==
  /\ [][\A s \in sessions : s.terminating =>
          \A x \in sessions' : x.sid = s.sid => x.terminating]_vars
  /\ [][\A c \in Callers : ReplaceStep(c) =>
          /\ evb'[Len(evb')] = EndClosure(th[c].imsi, 0)
          /\ \E r \in creates' : r.call = th[c].call]_vars
  /\ []((Replaced /\ CreateFailed(2)) =>
          \A i \in Imsis : LiveSessions(i) = {})

(* the replacing creation failed at billing, the old session has been   *)
(* terminated and reported, and the table is empty                       *)
C27_Witness ==
  /\ Replaced
  /\ CreateFailed(2)
  /\ nTermCalls = 1
  /\ sessions = {}
  /\ CopiesIn([call |-> 1, status |-> "OK"], createAcks) = 1

----------------------------------------------------------------------------
(* Properties of the accounting service. *)

(* the contexts an operation that left aaaLast' can have been called with *)
LastCtxs ==
  [nil : {FALSE}, sid : {aaaLast'.sid} \cap AaaSids, imsi : AaaImsis,
   mac : MacAddrs]

(* Start reaches the service's CreateSession with ctx *)
StartCreates(ctx) ==
  /\ ~ctx.nil
  /\ GetSession(ctx.sid)
  /\ aaaConfig.accounting /\ ~aaaConfig.createOnAuth

(* C23: a create request whose MAC address does not parse is answered     *)
(* InvalidArgument and has no side effect: no call to the session manager *)
(* (so no billing call either) and no idle timeout registered.            *)
C23_MalformedMacRejected ==
  [][\A ctx \in LastCtxs, smErr \in BOOLEAN :
       (StartCreates(ctx) /\ ~ParseMAC(ctx.mac) /\ AcctStart(ctx, smErr)) =>
         /\ aaaLast'.code = "InvalidArgument"
         /\ aaaLast'.out = <<>>
         /\ aaaTimeouts' = aaaTimeouts
         /\ aaaSessions' = aaaSessions
         /\ UNCHANGED <<creates, nCreateCalls, sessions>>]_vars

(* a Start for an authenticated session was rejected for its MAC address *)
C23_Witness ==
  /\ aaaConfig.accounting /\ ~aaaConfig.createOnAuth
  /\ aaaLast.op = "Start"
  /\ aaaLast.code = "InvalidArgument"
  /\ GetSession(aaaLast.sid)
  /\ aaaLast.sid \notin aaaTimeouts

(* C24: when the idle timeout of a session expires, EndSession is called  *)
(* for the session's subscriber id if accounting is enabled, the Radius   *)
(* disconnect is attempted whether or not EndSession failed, each call is *)
(* made once, a failure of either is returned, and the session and its    *)
(* timeout are gone.                                                       *)
C24_TimeoutIsImplicitEnd ==
  [][\A sid \in {aaaLast'.sid} \cap AaaSids,
        smErr, connErr, radErr \in BOOLEAN :
       AaaTimeoutExpires(sid, smErr, connErr, radErr) =>
         LET imsi == StoredSession(sid).imsi
             out == aaaLast'.out
             nSm == IF aaaConfig.accounting THEN 1 ELSE 0
             nRad == IF connErr THEN 0 ELSE 1
         IN  /\ Len(out) = nSm + nRad
             /\ nSm = 1 => out[1] = SmEndSession(imsi)
             /\ nRad = 1 => out[Len(out)] = RadiusDisconnect(sid, imsi)
             /\ (aaaLast'.code = "OK") <=>
                  ~((aaaConfig.accounting /\ smErr) \/ connErr \/ radErr)
             /\ sid \notin aaaTimeouts'
             /\ \A x \in aaaSessions' : x.sid # sid]_vars

(* a timeout expired, EndSession failed, and the disconnect was sent and  *)
(* failed too                                                              *)
C24_Witness ==
  /\ aaaLast.op = "EndTimedOutSession"
  /\ aaaLast.code = "Internal"
  /\ Len(aaaLast.out) = 2
  /\ aaaLast.out[1].to = "EndSession"
  /\ aaaLast.out[2].to = "Disconnect"

(* the outcome of an operation that only fails with code *)
FailsOnly(code) ==
  /\ aaaLast'.code = code
  /\ aaaLast'.out = <<>>
  /\ aaaTimeouts' = aaaTimeouts
  /\ aaaSessions' = aaaSessions

(* C25: Start, InterimUpdate and Stop for a session id that is not in the *)
(* session table answer FailedPrecondition, call the session manager      *)
(* neither for CreateSession nor for EndSession, and register no timeout. *)
C25_UnknownSessionRejected ==
  [][~GetSession(aaaLast'.sid) =>
       \A ctx \in LastCtxs, smErr \in BOOLEAN :
         /\ AcctStart(ctx, smErr) => FailsOnly("FailedPrecondition")
         /\ AcctInterimUpdate(ctx) => FailsOnly("FailedPrecondition")
         /\ AcctStop(ctx, smErr) => FailsOnly("FailedPrecondition")]_vars

(* each of the three operations has been refused for this reason while    *)
(* accounting is enabled and another session is known                      *)
UnknownRefused(op) ==
  /\ aaaConfig.accounting
  /\ aaaLast.op = op
  /\ aaaLast.code = "FailedPrecondition"
  /\ ~GetSession(aaaLast.sid)
  /\ aaaSessions # {}

C25_Witness == UnknownRefused("Stop")
C25_WitnessStart == UnknownRefused("Start")
C25_WitnessUpdate == UnknownRefused("InterimUpdate")

(* C28: a TerminateSession whose IMSI differs from the stored session's   *)
(* IMSI (the stored one taken with the IMSI prefix) answers               *)
(* InvalidArgument and sends no Radius Disconnect, yet the session has    *)
(* been removed from the table; for an unknown session id it answers      *)
(* FailedPrecondition and changes nothing.                                 *)
C28_TerminateMismatch ==
  [][\A sid \in {aaaLast'.sid} \cap AaaSids, imsi \in AaaImsis,
        connErr, radErr \in BOOLEAN :
       AcctTerminateSession(sid, imsi, connErr, radErr) =>
         /\ ~GetSession(sid) => FailsOnly("FailedPrecondition")
         /\ (GetSession(sid) /\ makeSID(StoredSession(sid).imsi) # imsi) =>
              /\ aaaLast'.code = "InvalidArgument"
              /\ aaaLast'.out = <<>>
              /\ aaaSessions' = aaaSessions \ {StoredSession(sid)}
              /\ sid \notin aaaTimeouts']_vars

(* a TerminateSession was refused for its IMSI and the session it named   *)
(* is gone while another one is still there                                *)
C28_Witness ==
  /\ aaaLast.op = "TerminateSession"
  /\ aaaLast.code = "InvalidArgument"
  /\ ~GetSession(aaaLast.sid)
  /\ aaaSessions # {}

(* a TerminateSession for an unknown session id was refused *)
C28_WitnessUnknown ==
  /\ aaaLast.op = "TerminateSession"
  /\ aaaLast.code = "FailedPrecondition"
  /\ aaaSessions # {}

----------------------------------------------------------------------------
(* Properties of the update location procedure. *)

(* the Update Location Request was passed to the S6A task *)
UlrSent ==
  /\ Len(mmeLast'.s6a) = 1
  /\ mmeLast'.s6a[1].type = "S6A_UPDATE_LOCATION_REQ"

(* the ULR response timer is started exactly when                         *)
(* location_info_confirmed_in_hss is false, and its id is left inactive   *)
(* when the start fails                                                    *)
UlrTimerRule(timerOk) ==
  /\ ue.location_info_confirmed_in_hss => UNCHANGED <<ue, mmeTimers>>
  /\ (~ue.location_info_confirmed_in_hss /\ timerOk) =>
       /\ ue'.timer_id \in mmeTimers' \ mmeTimers
       /\ mmeTimers' = mmeTimers \cup {ue'.timer_id}
  /\ (~ue.location_info_confirmed_in_hss /\ ~timerOk) =>
       /\ ue'.timer_id = TimerInactive
       /\ mmeTimers' = mmeTimers

(* C29 as stated: mme_app_send_s6a_update_location_req always sends the   *)
(* Update Location Request, starts the ULR response timer if and only if  *)
(* location_info_confirmed_in_hss is false, and leaves the timer id        *)
(* inactive when the start fails.                                          *)
C29_AlwaysSendsUlr ==
  [][\A allocOk, sendOk, timerOk \in BOOLEAN :
       mme_app_send_s6a_update_location_req(allocOk, sendOk, timerOk) =>
         UlrSent /\ UlrTimerRule(timerOk)]_vars

(* C29, amended: when the request message can be allocated the Update     *)
(* Location Request is sent and the timer follows the rule above; when it *)
(* cannot, the function returns RETURNerror, sends nothing and starts no  *)
(* timer.                                                                  *)
C29_SendsUlrIfAllocated ==
  [][\A allocOk, sendOk, timerOk \in BOOLEAN :
       mme_app_send_s6a_update_location_req(allocOk, sendOk, timerOk) =>
         IF allocOk
           THEN UlrSent /\ UlrTimerRule(timerOk)
           ELSE /\ mmeLast'.rc = "RETURNerror"
                /\ mmeLast'.s6a = <<>>
                /\ UNCHANGED <<ue, mmeTimers>>]_vars

(* a request was sent after an HSS reset, with no timer started, while    *)
(* the timer of an earlier request is running                              *)
C29_Witness ==
  /\ mmeLast.op = "ulr"
  /\ Len(mmeLast.s6a) = 1
  /\ mmeLast.s6a[1].skip_subscriber_data
  /\ ue.timer_id \in mmeTimers
  /\ Cardinality(mmeTimers) = 1

(* a request could not be allocated *)
C29_WitnessNoMessage ==
  /\ mmeLast.op = "ulr"
  /\ mmeLast.rc = "RETURNerror"
  /\ mmeLast.s6a = <<>>
  /\ ~ue.location_info_confirmed_in_hss
  /\ ue.timer_id = TimerInactive

(* the outcome of handling an answer with this result for a known IMSI *)
UlaRule(result) ==
  /\ ue'.timer_id = TimerInactive
  /\ Len(mmeLast'.nas) = 1
  /\ IF result = "BASE_SUCCESS"
       THEN /\ mmeLast'.nas[1] = NasPdnConfigRsp
            /\ ue'.subscription_known
            /\ ue'.send_ue_purge_request
            /\ ~ue'.location_info_confirmed_in_hss
       ELSE /\ mmeLast'.nas[1] = NasPdnConnectivityFail
            /\ ue'.subscription_known = ue.subscription_known
            /\ ue'.subscription_data = ue.subscription_data

(* C30: after every Update Location Answer for a known IMSI the ULR       *)
(* response timer is inactive and exactly one NAS message has been sent:  *)
(* PDN_CONFIG_RSP when the result is base DIAMETER_SUCCESS, with           *)
(* subscription_known set, send_ue_purge_request true and                  *)
(* location_info_confirmed_in_hss false; PDN_CONNECTIVITY_FAIL with cause  *)
(* system failure otherwise, the stored subscription data unchanged.       *)
C30_UlaAnswered ==
  [][\A allocOk, sendOk, removeOk \in BOOLEAN, result \in UlaResults,
        sub \in SubData, ub \in {"crash", "sent"} :
       mme_app_handle_s6a_update_location_ans(TRUE, result, sub, allocOk,
                                              sendOk, removeOk, ub)
         => UlaRule(result)]_vars

(* C31: after mme_app_handle_s6a_update_location_ans or                   *)
(* mme_app_handle_s6a_cancel_location_req has returned, the UE context it *)
(* obtained is released (unlock_ue_contexts was called), on the path      *)
(* where the UE is in ECM_IDLE and is paged too.                          *)
C31_ContextReleased ==
  (mmeLast.op \in {"ula", "clr"} /\ mmeLast.rc # "crash") => ~ue.locked

(* the stored fields of the UE context, the lock aside *)
UeData(u) == [u EXCEPT !.locked = FALSE]

(* what a Cancel Location Request does apart from answering: the detach   *)
(* is started exactly for a known IMSI and SUBSCRIPTION_WITHDRAWL, by     *)
(* paging and deferring when the UE is in ECM_IDLE and by a NAS detach    *)
(* request otherwise; any other request returns an error and leaves the   *)
(* UE context as it was                                                    *)
ClrRule(known, ctype) ==
  IF known /\ ctype = "SUBSCRIPTION_WITHDRAWL"
    THEN /\ ue'.hss_initiated_detach
         /\ IF ue.ecm_state = "ECM_IDLE"
              THEN /\ mmeLast'.nas = <<PagingRequest>>
                   /\ ue'.nw_init_bearer_deactv
              ELSE /\ mmeLast'.nas[1] = NasDetachRequest
                   /\ ue'.nw_init_bearer_deactv = ue.nw_init_bearer_deactv
    ELSE /\ mmeLast'.rc = "RETURNerror"
         /\ mmeLast'.nas = <<>>
         /\ UeData(ue') = UeData(ue)

(* C32 as stated: every Cancel Location Request is answered with a Cancel *)
(* Location Answer carrying DIAMETER_SUCCESS, whether or not the IMSI is  *)
(* known and the cancellation type supported, and the detach is started   *)
(* only for a known IMSI and SUBSCRIPTION_WITHDRAWL.                      *)
C32_AlwaysAnswersClr ==
  [][\A known, allocOk, detachOk \in BOOLEAN, ctype \in CancellationTypes :
       mme_app_handle_s6a_cancel_location_req(known, ctype, allocOk, detachOk)
         => /\ mmeLast'.s6a = <<S6aCancelLocationAns>>
            /\ ClrRule(known, ctype)]_vars

(* C32, amended: the Cancel Location Answer with DIAMETER_SUCCESS is sent  *)
(* for every request for which the answer message can be allocated,       *)
(* whether or not the IMSI is known and the type supported; when it       *)
(* cannot, no answer is sent and the handler goes on; the detach is       *)
(* started only for a known IMSI and SUBSCRIPTION_WITHDRAWL.              *)
C32_AnswersClrIfAllocated ==
  [][\A known, allocOk, detachOk \in BOOLEAN, ctype \in CancellationTypes :
       mme_app_handle_s6a_cancel_location_req(known, ctype, allocOk, detachOk)
         => /\ mmeLast'.s6a =
                 IF allocOk THEN <<S6aCancelLocationAns>> ELSE <<>>
            /\ ClrRule(known, ctype)]_vars

(* a request for an unsupported type was answered and refused after the   *)
(* UE had been marked for an HSS-initiated detach by an earlier one       *)
C32_Witness ==
  /\ mmeLast.op = "clr"
  /\ mmeLast.rc = "RETURNerror"
  /\ mmeLast.s6a = <<S6aCancelLocationAns>>
  /\ ue.hss_initiated_detach
  /\ ue.ecm_state = "ECM_CONNECTED"

(* a request was acted on for a connected UE with an SGs context although *)
(* no answer could be sent                                                 *)
C32_WitnessNoAnswer ==
  /\ mmeLast.op = "clr"
  /\ mmeLast.s6a = <<>>
  /\ mmeLast.nas = <<NasDetachRequest, SgsDetachRequest>>
  /\ ue.hss_initiated_detach

====
